---- MODULE Spec2Model ----
(***************************************************************************)
(* The two benchmark scripts of the repository,                            *)
(*   MLTK_keyworkSpotting/run_benchmark.py  (script = "audio")             *)
(*   mobileNetV2/run_benchmark.py           (script = "image")             *)
(* as one state machine: main() loads the model, enumerates the dataset,   *)
(* runs the benchmark loop, renders the plots and writes the CSV.          *)
(*                                                                         *)
(* Three specifications share the state:                                   *)
(*   Spec       the whole of main(), over a flat dataset directory;        *)
(*   SpecEnum   load_dataset alone, over directory trees and max_files;    *)
(*   SpecShape  preprocess_audio / preprocess_image alone, over shapes.    *)
(***************************************************************************)
EXTENDS Integers, Sequences, FiniteSets, TLC

VARIABLES
    script,            \* which of the two scripts runs
    tree,              \* content of DATASET_DIR, in traversal order
    max_files,         \* the max_files argument of the audio load_dataset
    pc,                \* position of main()
    error,             \* the exception main() died of, "none" otherwise
    dataset_paths,     \* result of load_dataset
    idx,               \* position of the for loop in dataset_paths
    now,               \* time.perf_counter()
    start_time,
    end_time,
    inference_times,
    cpu_usages,
    memory_usages,
    predictions,
    confidence_scores,
    plot_idx,          \* next plot of save_visualizations
    png_files,         \* PNG files written by this run
    csv_file,          \* lines of RESULTS_FILE written by this run
    failed,            \* history: the paths whose processing raised
    engine_time,       \* history: duration of every invoke() that returned
    input_shape,       \* input_details[0]['shape'] of the model
    raw,               \* shape of the decoded file handed to the preprocessor
    tensor             \* what the preprocessor returned: a shape, or None

vars == << script, tree, max_files, pc, error, dataset_paths, idx, now,
           start_time, end_time, inference_times, cpu_usages, memory_usages,
           predictions, confidence_scores, plot_idx, png_files, csv_file,
           failed, engine_time, input_shape, raw, tensor >>

runVars == << idx, now, start_time, end_time, inference_times, cpu_usages,
              memory_usages, predictions, confidence_scores, plot_idx,
              png_files, csv_file, failed, engine_time >>

shapeVars == << input_shape, raw, tensor >>

(***************************************************************************)
(* Bounds of the model.                                                    *)
(***************************************************************************)
MaxSamples == 3        \* files in the dataset directory of Spec
MaxTick == 2           \* longest duration of one timed call
MaxClock == 4          \* the clock stops advancing here
MaxEntries == 3        \* files in the directory tree of SpecEnum
MaxDirs == 2           \* directories os.walk visits in SpecEnum
MaxMaxFiles == 2       \* largest max_files of SpecEnum
MaxDim == 3            \* largest dimension of a tensor shape in SpecShape
MaxFrames == 2         \* most frames of a wav file in SpecShape

MAX_INFERENCES == 100

SeqsUpTo(S, n) == UNION { [1..k -> S] : k \in 0..n }

Range(s) == { s[i] : i \in 1..Len(s) }

(***************************************************************************)
(* File names.  The stem of a name is irrelevant to the scripts; a name is *)
(* modelled by its ending.  Lower is str.lower() on those endings.         *)
(***************************************************************************)
EnumNames == { ".wav", ".WAV", ".png", ".JPG", ".txt" }

RunNames == { ".wav", ".jpeg", ".txt" }

Lower(name) ==
    CASE name = ".WAV" -> ".wav"
      [] name = ".PNG" -> ".png"
      [] name = ".JPG" -> ".jpg"
      [] OTHER -> name

AUDIO_EXT == { ".wav" }

IMAGE_EXT == { ".png", ".jpg", ".jpeg" }

EndsWith(name, suffixes) == name \in suffixes

\* os.path.join(root, file): the file at position i of the traversal
PathOf(t, i) == [ dir |-> t[i].dir, file |-> i, name |-> t[i].name ]

\* the entries (positions of the traversal) that lie in directory d
FilesIn(t, d) == SelectSeq([ i \in 1..Len(t) |-> i ], LAMBDA i : t[i].dir = d)

LastDir(t) == IF Len(t) = 0 THEN 1 ELSE t[Len(t)].dir

(***************************************************************************)
(* load_dataset, audio script: os.walk with the two breaks.                *)
(***************************************************************************)
ReachedMaxOffByOne(paths, m) == Len(paths) > m

ReachedMax(paths, m) == Len(paths) >= m

RECURSIVE WalkFiles(_, _, _, _)
WalkFiles(t, files, audio_paths, m) ==
    IF files = << >> THEN audio_paths
    ELSE LET i == Head(files)
         IN  IF EndsWith(Lower(t[i].name), AUDIO_EXT)
             THEN LET appended == Append(audio_paths, PathOf(t, i))
                  IN  IF ReachedMax(appended, m)
                      THEN appended
                      ELSE WalkFiles(t, Tail(files), appended, m)
             ELSE WalkFiles(t, Tail(files), audio_paths, m)

RECURSIVE WalkDirs(_, _, _, _)
WalkDirs(t, d, audio_paths, m) ==
    IF d > LastDir(t) THEN audio_paths
    ELSE LET collected == WalkFiles(t, FilesIn(t, d), audio_paths, m)
         IN  IF ReachedMax(collected, m)
             THEN collected
             ELSE WalkDirs(t, d + 1, collected, m)

LoadDatasetAudio(t, m) == WalkDirs(t, 1, << >>, m)

(***************************************************************************)
(* load_dataset, image script: os.listdir of the directory itself, no      *)
(* max_files parameter.                                                    *)
(***************************************************************************)
LoadDatasetImage(t) ==
    LET listed == FilesIn(t, 1)
        kept == SelectSeq(listed, LAMBDA i : EndsWith(Lower(t[i].name), IMAGE_EXT))
    IN  [ k \in 1..Len(kept) |-> PathOf(t, kept[k]) ]

LoadDatasetResult(s, t, m) ==
    IF s = "audio" THEN LoadDatasetAudio(t, m) ELSE LoadDatasetImage(t)

LoadDatasetNeverRaises(paths) == FALSE

\* "if not audio_paths: raise FileNotFoundError"
LoadDatasetRaises(paths) == Len(paths) = 0

(***************************************************************************)
(* Array shapes.  A shape is a tuple of naturals, as numpy reports it; the *)
(* operators below are the shape each numpy / PIL call returns.            *)
(***************************************************************************)
\* input_shape[1:]
DropBatch(shape) == Tail(shape)

\* input_shape[:-1]
DropLast(shape) == SubSeq(shape, 1, Len(shape) - 1)

\* np.mean(a, axis=1)
MeanAxis1(shape) == << shape[1] >>

\* np.fft.rfft(a, n=n) of a 1-D array
RfftShape(shape, n) == << (n \div 2) + 1 >>

\* np.resize(a, new_shape): repeats or truncates a to fill new_shape
ResizeShape(shape, new_shape) == new_shape

\* np.expand_dims(a, axis=-1)
ExpandLast(shape) == Append(shape, 1)

\* np.expand_dims(a, axis=0)
ExpandFirst(shape) == << 1 >> \o shape

\* np.transpose(a, perm), perm given 0-based as in the source
Transpose(shape, perm) == [ k \in 1..Len(perm) |-> shape[perm[k] + 1] ]

\* img.resize((width, height)); np.array(img) is height x width x bands
PilResize(img, size) == [ img EXCEPT !.size = size ]

PilConvertRGB(img) == [ img EXCEPT !.bands = 3 ]

NpArrayOfImage(img) == << img.size[2], img.size[1], img.bands >>

None == [ ok |-> FALSE, shape |-> << >> ]

Array(shape) == [ ok |-> TRUE, shape |-> shape ]

(***************************************************************************)
(* preprocess_audio(file_path, input_shape): every exception inside is     *)
(* caught and None returned.  wav.read raises on an unreadable file,       *)
(* np.max on an empty array.                                               *)
(***************************************************************************)
PreprocessAudio(file, shape) ==
    IF ~file.readable THEN None
    ELSE LET audio == IF Len(file.shape) > 1 THEN MeanAxis1(file.shape)
                      ELSE file.shape
         IN  IF audio[1] = 0 THEN None
             ELSE LET spectrogram == RfftShape(audio, shape[Len(shape)])
                      resized == ResizeShape(spectrogram, DropLast(shape))
                  IN  Array(ExpandFirst(ExpandLast(resized)))

(***************************************************************************)
(* preprocess_image(image_path, input_shape): no exception is caught; an   *)
(* unreadable file makes Image.open raise (None stands for the raise).     *)
(***************************************************************************)
TRANSPOSE_PERM == << 2, 0, 1 >>

PreprocessImage(file, shape) ==
    IF ~file.readable THEN None
    ELSE LET img == PilResize(PilConvertRGB(file), << shape[4], shape[3] >>)
             img_array == Transpose(NpArrayOfImage(img), TRANSPOSE_PERM)
         IN  Array(ExpandFirst(img_array))

\* the call of the preprocessor in run_benchmark
PreprocessCall(s, file, shape) ==
    IF s = "audio" THEN PreprocessAudio(file, DropBatch(shape))
    ELSE PreprocessImage(file, shape)

(***************************************************************************)
(* main()                                                                  *)
(***************************************************************************)
Terminated == pc \in { "done", "crashed" }

Crash(e) == pc' = "crashed" /\ error' = e

\* tflite.Interpreter(model_path=MODEL_PATH); interpreter.allocate_tensors()
LoadModel ==
    /\ pc = "load_model"
    /\ \/ pc' = "load_dataset" /\ error' = error
       \/ Crash("ModelLoadError")
    /\ UNCHANGED << script, tree, max_files, dataset_paths, runVars, shapeVars >>

\* dataset_paths = load_dataset(DATASET_DIR, MAX_INFERENCES)
LoadDataset ==
    /\ pc = "load_dataset"
    /\ LET paths == LoadDatasetResult(script, tree, max_files)
       IN  IF LoadDatasetRaises(paths)
           THEN Crash("FileNotFoundError") /\ dataset_paths' = dataset_paths
           ELSE pc' = "loop" /\ error' = error /\ dataset_paths' = paths
    /\ UNCHANGED << script, tree, max_files, runVars, shapeVars >>

(***************************************************************************)
(* run_benchmark: one action per statement of the loop body that can raise *)
(* or that reads the clock.  Preprocessing and invoke() take time; the     *)
(* other statements are instantaneous.                                     *)
(***************************************************************************)
Ticks == { d \in 0..MaxTick : now + d <= MaxClock }

ExceptionPolicyCatchAll(s, step) == "skip"

\* What becomes of an exception raised by a step of the loop body.
\* audio: preprocess_audio returns None and the loop continues (lines 60-62,
\* 79-80); set_tensor and invoke are inside try/except (lines 82-100).
\* image: nothing is caught.
ExceptionPolicy(s, step) ==
    IF s = "audio" THEN "skip" ELSE "abort"

Raise(step) ==
    /\ failed' = failed \cup { dataset_paths[idx] }
    /\ IF ExceptionPolicy(script, step) = "skip"
       THEN pc' = "loop" /\ idx' = idx + 1 /\ error' = error
       ELSE Crash(step) /\ idx' = idx

\* "for file_path in tqdm(dataset_paths)": next path, or return
NextSample ==
    /\ pc = "loop"
    /\ idx <= Len(dataset_paths)
    /\ pc' = "preprocess"
    /\ UNCHANGED << script, tree, max_files, error, dataset_paths, runVars, shapeVars >>

ReturnFromBenchmark ==
    /\ pc = "loop"
    /\ idx > Len(dataset_paths)
    /\ pc' = "plot"
    /\ UNCHANGED << script, tree, max_files, error, dataset_paths, runVars, shapeVars >>

Preprocess ==
    /\ pc = "preprocess"
    /\ \E d \in Ticks : now' = now + d
    /\ \/ pc' = "set_tensor" /\ UNCHANGED << idx, error, failed >>
       \/ Raise("preprocess")
    /\ UNCHANGED << script, tree, max_files, dataset_paths, start_time, end_time,
                    inference_times, cpu_usages, memory_usages, predictions,
                    confidence_scores, plot_idx, png_files, csv_file,
                    engine_time, shapeVars >>

SetTensor ==
    /\ pc = "set_tensor"
    /\ \/ pc' = "start_timer" /\ UNCHANGED << idx, error, failed >>
       \/ Raise("set_tensor")
    /\ UNCHANGED << script, tree, max_files, dataset_paths, now, start_time,
                    end_time, inference_times, cpu_usages, memory_usages,
                    predictions, confidence_scores, plot_idx, png_files,
                    csv_file, engine_time, shapeVars >>

\* the clock read once before the loop instead of before every invoke()
StartTimerBeforeLoop ==
    /\ pc = "start_timer"
    /\ pc' = "invoke"
    /\ UNCHANGED << script, tree, max_files, error, dataset_paths, idx, now,
                    start_time, end_time, inference_times, cpu_usages,
                    memory_usages, predictions, confidence_scores, plot_idx,
                    png_files, csv_file, failed, engine_time, shapeVars >>

\* start_time = time.perf_counter()
StartTimer ==
    /\ pc = "start_timer"
    /\ start_time' = now
    /\ pc' = "invoke"
    /\ UNCHANGED << script, tree, max_files, error, dataset_paths, idx, now,
                    end_time, inference_times, cpu_usages, memory_usages,
                    predictions, confidence_scores, plot_idx, png_files,
                    csv_file, failed, engine_time, shapeVars >>

\* interpreter.invoke()
Invoke ==
    /\ pc = "invoke"
    /\ \E d \in Ticks :
          /\ now' = now + d
          /\ \/ /\ pc' = "end_timer"
                /\ engine_time' = Append(engine_time, d)
                /\ UNCHANGED << idx, error, failed >>
             \/ Raise("invoke") /\ engine_time' = engine_time
    /\ UNCHANGED << script, tree, max_files, dataset_paths, start_time, end_time,
                    inference_times, cpu_usages, memory_usages, predictions,
                    confidence_scores, plot_idx, png_files, csv_file, shapeVars >>

\* end_time = time.perf_counter()
EndTimer ==
    /\ pc = "end_timer"
    /\ end_time' = now
    /\ pc' = "record"
    /\ UNCHANGED << script, tree, max_files, error, dataset_paths, idx, now,
                    start_time, inference_times, cpu_usages, memory_usages,
                    predictions, confidence_scores, plot_idx, png_files,
                    csv_file, failed, engine_time, shapeVars >>

\* inference_time = end_time - start_time
InferenceTime(start, end) == end - start

\* one entry of an accumulation list: the value and the sample it is of
Entry(path, v) == [ sample |-> path, value |-> v ]

\* inference_times.append(...); cpu_usages.append(...); memory_usages.append(...)
Record ==
    /\ pc = "record"
    /\ LET path == dataset_paths[idx]
       IN  /\ inference_times' = Append(inference_times,
                                        Entry(path, InferenceTime(start_time, end_time)))
           /\ cpu_usages' = Append(cpu_usages, Entry(path, "cpu"))
           /\ memory_usages' = Append(memory_usages, Entry(path, "mem"))
    /\ IF script = "audio"
       THEN pc' = "loop" /\ idx' = idx + 1
       ELSE pc' = "get_output" /\ idx' = idx
    /\ UNCHANGED << script, tree, max_files, error, dataset_paths, now, start_time,
                    end_time, predictions, confidence_scores, plot_idx,
                    png_files, csv_file, failed, engine_time, shapeVars >>

\* image script: output = interpreter.get_tensor(...); predictions.append(output);
\* confidence_scores.append(np.max(output))
GetOutput ==
    /\ pc = "get_output"
    /\ \/ /\ predictions' = Append(predictions, Entry(dataset_paths[idx], "output"))
          /\ confidence_scores' = Append(confidence_scores,
                                         Entry(dataset_paths[idx], "max"))
          /\ pc' = "loop" /\ idx' = idx + 1
          /\ UNCHANGED << error, failed >>
       \/ Raise("get_tensor") /\ UNCHANGED << predictions, confidence_scores >>
    /\ UNCHANGED << script, tree, max_files, dataset_paths, now, start_time,
                    end_time, inference_times, cpu_usages, memory_usages,
                    plot_idx, png_files, csv_file, engine_time, shapeVars >>

(***************************************************************************)
(* save_visualizations: the plots in source order, none inside a try.      *)
(***************************************************************************)
PLOTS(s) ==
    IF s = "audio"
    THEN << "inference_time_distribution.png", "cpu_usage_plot.png",
            "memory_usage_plot.png" >>
    ELSE << "inference_time_distribution.png", "cpu_usage_plot.png",
            "memory_usage_plot.png", "mobilenet_confidence_scores_plot.png",
            "mobilenet_predicted_labels_plot.png" >>

\* plt.figure(); plt.plot(...); plt.savefig(...); plt.close()
Plot ==
    /\ pc = "plot"
    /\ \/ /\ png_files' = png_files \cup { PLOTS(script)[plot_idx] }
          /\ plot_idx' = plot_idx + 1
          /\ pc' = IF plot_idx = Len(PLOTS(script)) THEN "save_csv" ELSE "plot"
          /\ error' = error
       \/ Crash("plot") /\ UNCHANGED << png_files, plot_idx >>
    /\ UNCHANGED << script, tree, max_files, dataset_paths, idx, now, start_time,
                    end_time, inference_times, cpu_usages, memory_usages,
                    predictions, confidence_scores, csv_file, failed,
                    engine_time, shapeVars >>

(***************************************************************************)
(* save_results_to_csv                                                     *)
(***************************************************************************)
CsvHeader(s) ==
    IF s = "audio"
    THEN << "Iteration", "Inference Time (s)", "CPU Usage (%)", "Memory Usage (%)" >>
    ELSE << "Iteration", "Inference Time (s)", "Predicted Label",
            "Confidence Score", "CPU Usage (%)", "Memory Usage (%)" >>

\* np.argmax(predictions[i])
ArgMax(pred) == Entry(pred.sample, "argmax")

\* a row that leaves out its last field
CsvRowShort(i) ==
    IF script = "audio"
    THEN << i, inference_times[i], cpu_usages[i] >>
    ELSE << i, inference_times[i], ArgMax(predictions[i]), confidence_scores[i],
            cpu_usages[i] >>

\* a row numbered by the position of its file in dataset_paths
CsvRowDatasetIndex(i) ==
    LET k == CHOOSE k \in 1..Len(dataset_paths) :
                 dataset_paths[k] = inference_times[i].sample
    IN  IF script = "audio"
        THEN << k, inference_times[i], cpu_usages[i], memory_usages[i] >>
        ELSE << k, inference_times[i], ArgMax(predictions[i]), confidence_scores[i],
                cpu_usages[i], memory_usages[i] >>

\* the row written for the i-th entry (i counts from 1; the source's i + 1)
CsvRow(i) ==
    IF script = "audio"
    THEN << i, inference_times[i], cpu_usages[i], memory_usages[i] >>
    ELSE << i, inference_times[i], ArgMax(predictions[i]), confidence_scores[i],
            cpu_usages[i], memory_usages[i] >>

\* the lists a row indexes besides inference_times
IndexedLists ==
    IF script = "audio" THEN << cpu_usages, memory_usages >>
    ELSE << predictions, confidence_scores, cpu_usages, memory_usages >>

\* the first i of range(len(inference_times)) at which a list is too short
RowsWritable ==
    { i \in 1..Len(inference_times) :
        \A j \in 1..i : \A k \in 1..Len(IndexedLists) : j <= Len(IndexedLists[k]) }

SaveCsv ==
    /\ pc = "save_csv"
    /\ LET n == Cardinality(RowsWritable)
       IN  /\ csv_file' = << CsvHeader(script) >> \o [ i \in 1..n |-> CsvRow(i) ]
           /\ IF n = Len(inference_times)
              THEN pc' = "done" /\ error' = error
              ELSE Crash("IndexError")
    /\ UNCHANGED << script, tree, max_files, dataset_paths, idx, now, start_time,
                    end_time, inference_times, cpu_usages, memory_usages,
                    predictions, confidence_scores, plot_idx, png_files,
                    failed, engine_time, shapeVars >>

(***************************************************************************)
(* The preprocessor alone (SpecShape).                                     *)
(***************************************************************************)
ApplyPreprocess ==
    /\ pc = "preprocessor"
    /\ tensor' = PreprocessCall(script, raw, input_shape)
    /\ pc' = "preprocessed"
    /\ UNCHANGED << script, tree, max_files, error, dataset_paths, runVars,
                    input_shape, raw >>

(***************************************************************************)
(* Initial states                                                          *)
(***************************************************************************)
NoFile == [ readable |-> FALSE, shape |-> << >> ]

InitRun ==
    /\ idx = 1
    /\ now = 0
    /\ start_time = 0
    /\ end_time = 0
    /\ inference_times = << >>
    /\ cpu_usages = << >>
    /\ memory_usages = << >>
    /\ predictions = << >>
    /\ confidence_scores = << >>
    /\ plot_idx = 1
    /\ png_files = { }
    /\ csv_file = << >>
    /\ failed = { }
    /\ engine_time = << >>
    /\ error = "none"
    /\ dataset_paths = << >>

InitNoShape ==
    /\ input_shape = << >>
    /\ raw = NoFile
    /\ tensor = None

\* directory trees: files in traversal order, each in its directory
Trees(names, dirs, n) ==
    { t \in SeqsUpTo([ dir : 1..dirs, name : names ], n) :
        \A i \in 1..(Len(t) - 1) : t[i].dir <= t[i + 1].dir }

Init ==
    /\ script \in { "audio", "image" }
    /\ tree \in Trees(RunNames, 1, MaxSamples)
    /\ max_files = MAX_INFERENCES
    /\ pc = "load_model"
    /\ InitRun
    /\ InitNoShape

Next ==
    \/ LoadModel
    \/ LoadDataset
    \/ NextSample
    \/ ReturnFromBenchmark
    \/ Preprocess
    \/ SetTensor
    \/ StartTimer
    \/ Invoke
    \/ EndTimer
    \/ Record
    \/ GetOutput
    \/ Plot
    \/ SaveCsv

Spec == Init /\ [][Next]_vars

\* load_dataset alone
InitEnum ==
    /\ script \in { "audio", "image" }
    /\ tree \in Trees(EnumNames, MaxDirs, MaxEntries)
    /\ max_files \in 1..MaxMaxFiles
    /\ pc = "load_dataset"
    /\ InitRun
    /\ InitNoShape

NextEnum == LoadDataset

SpecEnum == InitEnum /\ [][NextEnum]_vars

\* the preprocessors alone
Dims == 1..MaxDim

AudioShapes == { << 1, t, f, c >> : t \in Dims, f \in Dims, c \in Dims }

ImageShapes ==
    { << 1, 3, h, w >> : h \in Dims, w \in Dims } \cup
    { << 1, h, w, 3 >> : h \in Dims, w \in Dims }

WavFiles ==
    { NoFile } \cup
    { [ readable |-> TRUE, shape |-> << n >> ] : n \in 0..MaxFrames } \cup
    { [ readable |-> TRUE, shape |-> << n, ch >> ] : n \in 0..MaxFrames, ch \in 1..2 }

ImageFiles ==
    { [ readable |-> FALSE, size |-> << 1, 1 >>, bands |-> 1 ] } \cup
    { [ readable |-> TRUE, size |-> << w, h >>, bands |-> b ] :
        w \in Dims, h \in Dims, b \in { 1, 3, 4 } }

InitShape ==
    /\ script \in { "audio", "image" }
    /\ input_shape \in IF script = "audio" THEN AudioShapes ELSE ImageShapes
    /\ raw \in IF script = "audio" THEN WavFiles ELSE ImageFiles
    /\ tensor = None
    /\ tree = << >>
    /\ max_files = MAX_INFERENCES
    /\ pc = "preprocessor"
    /\ InitRun

NextShape == ApplyPreprocess

SpecShape == InitShape /\ [][NextShape]_vars

(***************************************************************************)
(* Properties                                                              *)
(***************************************************************************)
SampleErrors == { "preprocess", "set_tensor", "invoke", "get_tensor" }

CsvWritten == Len(csv_file) > 0

\* the data rows of the CSV, and the sample each was written for
CsvRows == [ i \in 1..(Len(csv_file) - 1) |-> csv_file[i + 1] ]

CsvSamples == [ i \in 1..Len(CsvRows) |-> CsvRows[i][2].sample ]

AllowedExt(s) == IF s = "audio" THEN AUDIO_EXT ELSE IMAGE_EXT

\* the files of the tree that load_dataset is to consider, in traversal order
Candidates(s, t) ==
    SelectSeq([ i \in 1..Len(t) |-> PathOf(t, i) ],
              LAMBDA p : /\ Lower(p.name) \in AllowedExt(s)
                         /\ s = "image" => p.dir = 1)

Min(a, b) == IF a <= b THEN a ELSE b

RECURSIVE SumSeq(_)
SumSeq(q) == IF q = << >> THEN 0 ELSE Head(q) + SumSeq(Tail(q))

\* C1: a run over N paths of which the set F fails ends with a CSV of
\* exactly N - |F| data rows, one per successful file, in dataset order
\* (runs whose report writer itself failed are left to C6).
C1_RowsAreSuccessfulSamples ==
    (Terminated /\ Len(dataset_paths) > 0 /\ error # "plot") =>
        /\ CsvWritten
        /\ Len(CsvRows) = Len(dataset_paths) - Cardinality(failed)
        /\ CsvSamples = SelectSeq(dataset_paths, LAMBDA p : p \notin failed)

\* C2: no failure of preprocessing or inference on a single sample ever
\* terminates the process.
C2_SampleFailureNeverAborts ==
    ~(pc = "crashed" /\ error \in SampleErrors)

\* C3: whenever the preprocessor returns a tensor, the tensor's shape is
\* the model's declared input shape.
C3_TensorShapeIsDeclaredShape ==
    (pc = "preprocessed" /\ tensor.ok) => tensor.shape = input_shape

\* C4 as stated: load_dataset returns at most max_files paths, each with an
\* allowed extension, in the audio and in the image script.
C4_AtMostMaxFiles ==
    pc = "loop" =>
        /\ Len(dataset_paths) <= max_files
        /\ \A p \in Range(dataset_paths) : Lower(p.name) \in AllowedExt(script)

\* C4 amended: every returned path has an allowed extension (compared in
\* lower case); the audio script returns the first min(max_files, matches)
\* matching files of the walk, so it stops inside a directory and takes
\* nothing from later ones; the image script has no maximum and returns
\* every matching file of the directory.
C4_AudioCappedImageUncapped ==
    pc = "loop" =>
        /\ \A p \in Range(dataset_paths) : Lower(p.name) \in AllowedExt(script)
        /\ script = "audio" =>
              /\ Len(dataset_paths) <= max_files
              /\ dataset_paths =
                    SubSeq(Candidates("audio", tree), 1,
                           Min(max_files, Len(Candidates("audio", tree))))
        /\ script = "image" => dataset_paths = Candidates("image", tree)

C4_Witness ==
    /\ pc = "loop"
    /\ script = "audio"
    /\ Len(dataset_paths) = max_files
    /\ dataset_paths[1].name = ".WAV"
    /\ LET last == dataset_paths[Len(dataset_paths)]
       IN  /\ \E p \in Range(Candidates("audio", tree)) :
                 p.dir = last.dir /\ p.file > last.file
           /\ \E p \in Range(Candidates("audio", tree)) : p.dir > last.dir

\* C5: with no file of an allowed extension in the dataset directory, main()
\* never gets past load_dataset: it writes no PNG and no CSV, and once the
\* model has loaded it ends with load_dataset's FileNotFoundError.
C5_EmptyDatasetEndsBeforeBenchmark ==
    Len(Candidates(script, tree)) = 0 =>
        /\ pc \in { "load_model", "load_dataset", "crashed" }
        /\ png_files = { }
        /\ ~CsvWritten
        /\ Terminated => error \in { "ModelLoadError", "FileNotFoundError" }
        /\ (Terminated /\ error # "ModelLoadError") => error = "FileNotFoundError"

C5_Witness ==
    /\ Len(Candidates(script, tree)) = 0
    /\ Len(tree) > 0
    /\ pc = "crashed"
    /\ error = "FileNotFoundError"

\* C6: a plot that fails to render blocks neither the other plots nor the
\* CSV: the run still writes every other plot file and the CSV.
C6_PlotFailureBlocksNothing ==
    (Terminated /\ error = "plot") =>
        /\ CsvWritten
        /\ \A k \in 1..Len(PLOTS(script)) :
              k # plot_idx => PLOTS(script)[k] \in png_files

\* C7: every recorded latency is exactly the time its invoke() call took:
\* it is never negative and holds no preprocessing time.
C7_LatencyIsInvokeTime ==
    /\ \A i \in 1..Len(inference_times) :
          /\ i <= Len(engine_time)
          /\ inference_times[i].value = engine_time[i]
          /\ inference_times[i].value >= 0
    /\ pc = "record" =>
          InferenceTime(start_time, end_time) = engine_time[Len(engine_time)]

C7_Witness ==
    /\ pc = "loop"
    /\ failed = { }
    /\ Len(inference_times) >= 2
    /\ inference_times[1].value > 0
    /\ inference_times[2].value = 0
    /\ now > SumSeq(engine_time)

\* C8: the header of the CSV has as many fields as every data row: 4 in the
\* audio script, 6 in the image script.
C8_HeaderAndRowsSameWidth ==
    CsvWritten =>
        /\ Len(csv_file[1]) = IF script = "audio" THEN 4 ELSE 6
        /\ \A i \in 1..Len(CsvRows) : Len(CsvRows[i]) = Len(csv_file[1])

C8_Witness ==
    /\ pc = "done"
    /\ script = "image"
    /\ Len(CsvRows) >= 2

\* C9: the Iteration column is 1, 2, ..., K, whatever files were skipped,
\* and no file has more than one row.
C9_IterationIsInsertionIndex ==
    CsvWritten =>
        /\ \A i \in 1..Len(CsvRows) : CsvRows[i][1] = i
        /\ \A i, j \in 1..Len(CsvRows) : CsvSamples[i] = CsvSamples[j] => i = j

C9_Witness ==
    /\ pc = "done"
    /\ script = "audio"
    /\ Len(CsvRows) >= 2
    /\ \E f \in failed :
          CsvSamples[1].file < f.file /\ f.file < CsvSamples[2].file

\* C10: at every boundary between iterations and after run_benchmark has
\* returned, the accumulation lists all have the length of inference_times;
\* save_results_to_csv never indexes past the end of a list, and the
\* fields of a row are all of one sample.
C10_ListsStayAligned ==
    /\ pc \in { "loop", "plot", "save_csv", "done" } =>
          /\ \A k \in 1..Len(IndexedLists) :
                /\ Len(IndexedLists[k]) = Len(inference_times)
                /\ \A i \in 1..Len(inference_times) :
                      IndexedLists[k][i].sample = inference_times[i].sample
    /\ error # "IndexError"
    /\ \A i \in 1..Len(CsvRows) :
          \A k \in 3..Len(CsvRows[i]) : CsvRows[i][k].sample = CsvRows[i][2].sample

C10_Witness ==
    /\ pc = "done"
    /\ Cardinality(failed) >= 2
    /\ Len(CsvRows) >= 1
    /\ Len(inference_times) = Len(memory_usages)

====
